---- MODULE Spec2Model ----
(***************************************************************************)
(* Model of ansible_runner/cleanup.py: removal of stale private data       *)
(* directories, of their registry auth directories and of container image  *)
(* tags.  Strings the code searches or splits are sequences of one-letter  *)
(* strings; command output is a sequence of lines, a line a sequence of    *)
(* words.                                                                  *)
(***************************************************************************)
EXTENDS Integers, Sequences, FiniteSets, TLC

\* ------------------------------------------------------------------ bounds
\* Most private data directories the file pattern matches.
MaxDirs == 2
\* Most image tags in a --remove-images list.
MaxTags == 2

\* ------------------------------------------------------- optional values
\* Python None, and a present value v.
None == <<>>
Some(v) == <<v>>

\* ---------------------------------------------------------------- strings
\* A wrong `s in t`: s only at the start of t.
IsPrefixOnly(s, t) == Len(s) <= Len(t) /\ SubSeq(t, 1, Len(s)) = s

\* Python `s in t` for strings: s occurs in t as a contiguous substring.
IsSubstring(s, t) ==
    \E i \in 0..(Len(t) - Len(s)) : SubSeq(t, i + 1, i + Len(s)) = s

\* Python `x in xs` for a list.
InList(x, xs) == \E i \in 1..Len(xs) : xs[i] = x

\* Python str.split(sep): the pieces between the separators, at least one.
RECURSIVE split(_, _)
split(s, sep) ==
    IF \A i \in 1..Len(s) : s[i] # sep
    THEN <<s>>
    ELSE LET k == CHOOSE i \in 1..Len(s) :
                      s[i] = sep /\ \A j \in 1..(i - 1) : s[j] # sep
         IN  <<SubSeq(s, 1, k - 1)>> \o split(SubSeq(s, k + 1, Len(s)), sep)

\* comma_sep_parse: a missing or empty option is the empty list.
comma_sep_parse(v, key) ==
    IF v[key] # None /\ v[key][1] # <<>> THEN split(v[key][1], ",") ELSE <<>>

\* ------------------------------------------------------------- filesystem
\* Paths of private data directories the file pattern can match.
Paths == { <<"r", "a">>, <<"r", "a", "b">>, <<"r", "b">> }

\* Entry names an artifacts directory can hold (job identifiers).
IdentA == <<"a">>
IdentAB == <<"a", "b">>

\* What the pid file of a directory is: absent, unreadable, not a number, or
\* the id of a process the probe signal reaches ("live") or does not ("dead").
PidStates == {"missing", "unreadable", "malformed", "live", "dead"}

\* What os.listdir(<dir>/artifacts) finds: None when there is no artifacts
\* directory, else the list of entry names.
ArtifactStates == { None, Some(<<IdentA>>), Some(<<IdentA, IdentAB>>) }

DirStates == [pid : PidStates, artifacts : ArtifactStates]

\* Names of registry auth directories, written without the leading
\* /tmp/<registry_auth_prefix>; each holds an underscore, as the glob asks.
AuxNames == { <<"a", "_", "x">>, <<"a", "b", "_", "x">>, <<"a", "_", "b", "_", "x">> }

\* Values of the --exclude-idents option.
ExcludeOpts == { None, Some(<<"a">>), Some(<<"a", "b">>),
                 Some(<<"a", "b", ",", "a">>), Some(<<"a", "b", ",">>) }

VARIABLES
    vargs,            \* the parsed command line options
    pc,               \* where run_cleanup is
    world,            \* matched directory path -> its pid file and artifacts
    present,          \* private data directories that exist
    auxWorld,         \* registry auth directories there were at the start
    auxPresent,       \* registry auth directories that exist
    exclude_idents,   \* run_cleanup / cleanup_dirs local
    remove_images,    \* run_cleanup local
    todo,             \* directories glob.iglob(pattern) has yet to yield
    auxTodo,          \* directories the second glob has yet to yield
    ct, running_idents, deleted_idents,       \* cleanup_dirs locals
    dir_ct, image_ct, pruned,                 \* run_cleanup locals
    tagIdx, discovered, rm_ct,                \* cleanup_images locals
    out,              \* lines printed so far
    cmds,             \* runtime commands run so far, with their results
    reads,            \* files and directories read so far
    foundRunning      \* directories is_alive answered truthy for

vars == << vargs, pc, world, auxWorld, present, auxPresent, exclude_idents,
           remove_images, todo, auxTodo, ct, running_idents, deleted_idents, dir_ct, image_ct,
           pruned, tagIdx, discovered, rm_ct, out, cmds, reads, foundRunning >>

\* -------------------------------------------------------------- is_alive
\* is_alive raises (ValueError from int()) when the pid file is not a number.
is_alive_raises(d) == world[d].pid = "malformed"

\* A wrong is_alive: a pid file that cannot be opened counts as alive.
is_alive_NoFileAlive(d) ==
    CASE world[d].pid \in {"missing", "unreadable"} -> 1
      [] world[d].pid = "live" -> 0
      [] world[d].pid = "dead" -> 1

\* The value is_alive returns: False (0) when the pid file cannot be opened,
\* 0 when os.kill succeeds, 1 when os.kill raises OSError.
is_alive(d) ==
    CASE world[d].pid \in {"missing", "unreadable"} -> 0
      [] world[d].pid = "live" -> 0
      [] world[d].pid = "dead" -> 1

\* Python truthiness of an integer or of False.
Truthy(x) == x # 0

\* _get_idents_from_pdd: the entry names, or [] on FileNotFoundError.
_get_idents_from_pdd(d) ==
    IF world[d].artifacts = None THEN <<>> ELSE world[d].artifacts[1]

\* A wrong exclusion test: only the first excluded identifier is looked for.
PathExcludedFirstOnly(d, excl) == Len(excl) > 0 /\ IsSubstring(excl[1], d)

\* any(ident in dir for ident in exclude_idents)
PathExcluded(d, excl) == \E i \in 1..Len(excl) : IsSubstring(excl[i], d)

\* ------------------------------------------------------------ cleanup_dirs
\* One iteration of the loop over glob.iglob(pattern), for directory d.
DirStep(d) ==
    /\ pc = "dirs"
    /\ d \in todo
    /\ todo' = todo \ {d}
    /\ IF PathExcluded(d, exclude_idents)
       THEN UNCHANGED << pc, present, ct, running_idents, deleted_idents,
                         reads, foundRunning >>
       ELSE /\ reads' = reads \cup {<<d, "artifacts">>, <<d, "pid">>}
            /\ IF is_alive_raises(d)
               THEN /\ pc' = "aborted"
                    /\ UNCHANGED << present, ct, running_idents, deleted_idents,
                                    foundRunning >>
               ELSE IF Truthy(is_alive(d))
               THEN /\ running_idents' = running_idents \o _get_idents_from_pdd(d)
                    /\ foundRunning' = foundRunning \cup {d}
                    /\ UNCHANGED << pc, present, ct, deleted_idents >>
               ELSE /\ deleted_idents' = deleted_idents \o _get_idents_from_pdd(d)
                    /\ present' = present \ {d}
                    /\ ct' = ct + 1
                    /\ UNCHANGED << pc, running_idents, foundRunning >>
    /\ UNCHANGED << vargs, world, auxWorld, auxPresent, exclude_idents, remove_images,
                    auxTodo, dir_ct, image_ct, pruned, tagIdx, discovered, rm_ct,
                    out, cmds >>

\* After the loop: the two summary lines, then the glob of the auth directories.
DirsSummary ==
    /\ pc = "dirs"
    /\ todo = {}
    /\ out' = out \o (IF ct # 0 THEN <<"Removed private data dir(s)">> ELSE <<>>)
                  \o (IF running_idents # <<>>
                      THEN <<"Excluding from cleanup running jobs">> ELSE <<>>)
    /\ auxTodo' = auxPresent
    /\ pc' = "aux"
    /\ UNCHANGED << vargs, world, auxWorld, present, auxPresent, exclude_idents,
                    remove_images, todo, ct, running_idents, deleted_idents,
                    dir_ct, image_ct, pruned, tagIdx, discovered, rm_ct, cmds,
                    reads, foundRunning >>

\* ident_re: the greedy group takes everything before the last underscore.
ParseIdent(name) ==
    LET k == CHOOSE i \in 1..Len(name) :
                 name[i] = "_" /\ \A j \in (i + 1)..Len(name) : name[j] # "_"
    IN  SubSeq(name, 1, k - 1)

\* A wrong second loop: the running identifiers are not consulted.
AuxRemovedIgnoringRunning(ident, excl, running, deleted) ==
    /\ ~InList(ident, excl)
    /\ InList(ident, deleted)

\* Whether the second loop removes the auth directory of this identifier.
AuxRemoved(ident, excl, running, deleted) ==
    /\ ~(InList(ident, excl) \/ InList(ident, running))
    /\ InList(ident, deleted)

\* One iteration of the loop over glob.iglob(registry_auth_pattern).
AuxStep(x) ==
    /\ pc = "aux"
    /\ x \in auxTodo
    /\ auxTodo' = auxTodo \ {x}
    /\ IF AuxRemoved(ParseIdent(x), exclude_idents, running_idents, deleted_idents)
       THEN /\ auxPresent' = auxPresent \ {x}
            /\ out' = Append(out, "Removed associated registry auth dir")
       ELSE UNCHANGED << auxPresent, out >>
    /\ UNCHANGED << vargs, pc, world, auxWorld, present, exclude_idents, remove_images,
                    todo, ct, running_idents, deleted_idents, dir_ct, image_ct,
                    pruned, tagIdx, discovered, rm_ct, cmds, reads, foundRunning >>

\* return ct
DirsReturn ==
    /\ pc = "aux"
    /\ auxTodo = {}
    /\ dir_ct' = ct
    /\ pc' = "images_gate"
    /\ UNCHANGED << vargs, world, auxWorld, present, auxPresent, exclude_idents,
                    remove_images, todo, auxTodo, ct, running_idents,
                    deleted_idents, image_ct, pruned, tagIdx, discovered, rm_ct,
                    out, cmds, reads, foundRunning >>

\* ------------------------------------------- cleanup_dirs called directly
NoArgs == [file_pattern |-> None, exclude_idents |-> None,
           remove_images |-> None, image_prune |-> FALSE]

Worlds == UNION { [D -> DirStates] : D \in {S \in SUBSET Paths : Cardinality(S) <= MaxDirs} }

InitDirs ==
    /\ world \in Worlds
    /\ present = DOMAIN world
    /\ auxWorld \in SUBSET AuxNames
    /\ auxPresent = auxWorld
    /\ \E o \in ExcludeOpts :
           exclude_idents = comma_sep_parse([NoArgs EXCEPT !.exclude_idents = o],
                                            "exclude_idents")
    /\ vargs = NoArgs
    /\ pc = "dirs"
    /\ todo = DOMAIN world
    /\ auxTodo = {}
    /\ remove_images = <<>>
    /\ ct = 0 /\ running_idents = <<>> /\ deleted_idents = <<>>
    /\ dir_ct = 0 /\ image_ct = 0 /\ pruned = FALSE
    /\ tagIdx = 1 /\ discovered = <<>> /\ rm_ct = 0
    /\ out = <<>> /\ cmds = <<>> /\ reads = {} /\ foundRunning = {}

NextDirs ==
    \/ \E d \in Paths : DirStep(d)
    \/ DirsSummary
    \/ \E x \in AuxNames : AuxStep(x)
    \/ DirsReturn

SpecDirs == InitDirs /\ [][NextDirs]_vars

\* ------------------------------------------------------------ run_command
\* What subprocess.run gives back for a runtime command.
Ok(stdout) == [rc |-> 0, stdout |-> stdout]
Failed == [rc |-> 1, stdout |-> <<>>]

\* A wrong run_command: the return code is not looked at.
run_command_never_raises(res) == FALSE

\* run_command raises RuntimeError on a non-zero return code.
run_command_raises(res) == res.rc # 0

\* str.strip() on the output: blank lines at both ends go.
RECURSIVE strip(_)
strip(lines) ==
    IF lines = <<>> THEN <<>>
    ELSE IF Head(lines) = <<>> THEN strip(Tail(lines))
    ELSE IF lines[Len(lines)] = <<>> THEN strip(SubSeq(lines, 1, Len(lines) - 1))
    ELSE lines

\* The value run_command returns when it does not raise.
run_command(res) == strip(res.stdout)

\* ---------------------------------------------------------- cleanup_images
\* Image tags a --remove-images list is made of.
Tags == { <<"t">>, <<"u">> }

RECURSIVE JoinComma(_)
JoinComma(ts) ==
    IF Len(ts) = 0 THEN <<>>
    ELSE IF Len(ts) = 1 THEN ts[1]
    ELSE ts[1] \o <<",">> \o JoinComma(Tail(ts))

\* Values of the --remove-images option: absent, or up to MaxTags tags
\* joined by commas.
RemoveOpts ==
    {None} \cup { Some(JoinComma(ts)) : ts \in UNION { [1..n -> Tags] : n \in 0..MaxTags } }

\* A line of `images --format="{{.Repository}}:{{.Tag}}"`: a quoted reference.
Quoted(ref) == <<"\"", ref, "\"">>

\* What the images command can answer: failure, nothing, or reference lines.
ListResults ==
    { Failed, Ok(<<>>), Ok(<< <<>> >>), Ok(<<Quoted("r1")>>),
      Ok(<<Quoted("r1"), Quoted("r2"), <<>> >>) }

\* What rmi can answer: failure, or lines naming what it untagged and deleted.
RmiResults ==
    { Failed, Ok(<< <<"Deleted:", "s1">> >>), Ok(<< <<"Untagged:", "r1">> >>),
      Ok(<< <<"Untagged:", "r1">>, <<"Untagged:", "r2">>, <<"Deleted:", "s1">> >>) }

\* What image prune can answer.
PruneResults ==
    { Failed, Ok(<<>>), Ok(<< <<"Total reclaimed space: 0B">>, <<>> >>),
      Ok(<< <<"Deleted:", "s1">>, <<"Total reclaimed space: 5MB">>, <<>> >>) }

\* discovered_tag.strip().strip('"'): the line without its quotes.
RECURSIVE strip_quotes(_)
strip_quotes(line) ==
    IF line = <<>> THEN <<>>
    ELSE IF Head(line) = "\"" THEN strip_quotes(Tail(line))
    ELSE IF line[Len(line)] = "\"" THEN strip_quotes(SubSeq(line, 1, Len(line) - 1))
    ELSE line

\* Occurrences of 'Untagged:' in a line, and stdout.count('Untagged:').
RECURSIVE CountInLine(_)
CountInLine(line) ==
    IF line = <<>> THEN 0
    ELSE (IF Head(line) = "Untagged:" THEN 1 ELSE 0) + CountInLine(Tail(line))

\* A wrong count: one for every line of the output.
CountLines(stdout) == Len(stdout)

RECURSIVE CountUntagged(_)
CountUntagged(stdout) ==
    IF stdout = <<>> THEN 0
    ELSE CountInLine(Head(stdout)) + CountUntagged(Tail(stdout))

\* The record of one runtime command.
Cmd(name, arg, res) == [cmd |-> name, arg |-> arg, res |-> res]

\* The images command for the next requested tag.
ListImages ==
    /\ pc = "images"
    /\ discovered = <<>>
    /\ tagIdx <= Len(remove_images)
    /\ \E res \in ListResults :
        /\ cmds' = Append(cmds, Cmd("images", remove_images[tagIdx], res))
        /\ IF run_command_raises(res)
           THEN /\ pc' = "aborted"
                /\ out' = Append(out, "Error running command")
                /\ UNCHANGED << tagIdx, discovered >>
           ELSE /\ discovered' = run_command(res)
                /\ tagIdx' = tagIdx + 1
                /\ UNCHANGED << pc, out >>
    /\ UNCHANGED << vargs, world, auxWorld, present, auxPresent, exclude_idents,
                    remove_images, todo, auxTodo, ct, running_idents,
                    deleted_idents, dir_ct, image_ct, pruned, rm_ct, reads,
                    foundRunning >>

\* rmi -f for the next discovered reference.
Rmi ==
    /\ pc = "images"
    /\ discovered # <<>>
    /\ \E res \in RmiResults :
        /\ cmds' = Append(cmds, Cmd("rmi", strip_quotes(Head(discovered)), res))
        /\ IF run_command_raises(res)
           THEN /\ pc' = "aborted"
                /\ out' = Append(out, "Error running command")
                /\ UNCHANGED << discovered, rm_ct >>
           ELSE /\ rm_ct' = rm_ct + CountUntagged(run_command(res))
                /\ discovered' = Tail(discovered)
                /\ UNCHANGED << pc, out >>
    /\ UNCHANGED << vargs, world, auxWorld, present, auxPresent, exclude_idents,
                    remove_images, todo, auxTodo, ct, running_idents,
                    deleted_idents, dir_ct, image_ct, pruned, tagIdx, reads,
                    foundRunning >>

\* The summary line and return rm_ct.
ImagesReturn ==
    /\ pc = "images"
    /\ discovered = <<>>
    /\ tagIdx > Len(remove_images)
    /\ out' = out \o (IF rm_ct # 0 THEN <<"Removed image(s)">> ELSE <<>>)
    /\ image_ct' = rm_ct
    /\ pc' = "prune_gate"
    /\ UNCHANGED << vargs, world, auxWorld, present, auxPresent, exclude_idents,
                    remove_images, todo, auxTodo, ct, running_idents,
                    deleted_idents, dir_ct, pruned, tagIdx, discovered, rm_ct,
                    cmds, reads, foundRunning >>

\* ------------------------------------------ cleanup_images called directly
InitImages ==
    /\ \E o \in RemoveOpts :
           remove_images = comma_sep_parse([NoArgs EXCEPT !.remove_images = o],
                                           "remove_images")
    /\ vargs = NoArgs
    /\ pc = "images"
    /\ world = << >> /\ present = {} /\ auxWorld = {} /\ auxPresent = {}
    /\ exclude_idents = <<>>
    /\ todo = {} /\ auxTodo = {}
    /\ ct = 0 /\ running_idents = <<>> /\ deleted_idents = <<>>
    /\ dir_ct = 0 /\ image_ct = 0 /\ pruned = FALSE
    /\ tagIdx = 1 /\ discovered = <<>> /\ rm_ct = 0
    /\ out = <<>> /\ cmds = <<>> /\ reads = {} /\ foundRunning = {}

NextImages ==
    \/ ListImages
    \/ Rmi
    \/ ImagesReturn

SpecImages == InitImages /\ [][NextImages]_vars

\* ------------------------------------------------------------ prune_images
\* prune_images returns False on no output or on the nothing-reclaimed line.
PruneChanged(stdout) ==
    ~(stdout = <<>> \/ stdout = << <<"Total reclaimed space: 0B">> >>)

\* -------------------------------------------------------------- run_cleanup
\* vargs.get(key) is truthy: the option is there and is not the empty string.
OptionGiven(v, key) == v[key] # None /\ v[key][1] # <<>>

\* A wrong prune guard: prune whenever images were asked to be removed.
RunsPruneWithImages(v) == v.image_prune \/ OptionGiven(v, "remove_images")

\* The guards of the three steps.
RunsDirs(v) == OptionGiven(v, "file_pattern")
RunsImages(imgs) == imgs # <<>>
RunsPrune(v) == v.image_prune

\* A wrong last line: the prune result is left out.
ChangedWithoutPrune(dirs, images, prn) == dirs # 0 \/ images # 0

\* The last line: dir_ct or image_ct or pruned.
Changed(dirs, images, prn) == dirs # 0 \/ images # 0 \/ prn

\* The option parsing, then cleanup_dirs is entered or passed over.
Start ==
    /\ pc = "start"
    /\ exclude_idents' = comma_sep_parse(vargs, "exclude_idents")
    /\ remove_images' = comma_sep_parse(vargs, "remove_images")
    /\ dir_ct' = 0 /\ image_ct' = 0 /\ pruned' = FALSE
    /\ IF RunsDirs(vargs)
       THEN /\ pc' = "dirs"
            /\ todo' = present
            /\ ct' = 0 /\ running_idents' = <<>> /\ deleted_idents' = <<>>
       ELSE /\ pc' = "images_gate"
            /\ UNCHANGED << todo, ct, running_idents, deleted_idents >>
    /\ UNCHANGED << vargs, world, auxWorld, present, auxPresent, auxTodo, tagIdx,
                    discovered, rm_ct, out, cmds, reads, foundRunning >>

\* cleanup_images is entered or passed over.
ImagesGate ==
    /\ pc = "images_gate"
    /\ IF RunsImages(remove_images)
       THEN /\ pc' = "images"
            /\ tagIdx' = 1 /\ discovered' = <<>> /\ rm_ct' = 0
       ELSE /\ pc' = "prune_gate"
            /\ UNCHANGED << tagIdx, discovered, rm_ct >>
    /\ UNCHANGED << vargs, world, auxWorld, present, auxPresent, exclude_idents,
                    remove_images, todo, auxTodo, ct, running_idents,
                    deleted_idents, dir_ct, image_ct, pruned, out, cmds, reads,
                    foundRunning >>

\* prune_images, when --image-prune is given.
PruneImages ==
    /\ pc = "prune_gate"
    /\ RunsPrune(vargs)
    /\ \E res \in PruneResults :
        /\ cmds' = Append(cmds, Cmd("prune", <<>>, res))
        /\ IF run_command_raises(res)
           THEN /\ pc' = "aborted"
                /\ out' = Append(out, "Error running command")
                /\ UNCHANGED pruned
           ELSE /\ pruned' = PruneChanged(run_command(res))
                /\ out' = out \o (IF PruneChanged(run_command(res))
                                  THEN <<"Pruned images">> ELSE <<>>)
                /\ pc' = "report"
    /\ UNCHANGED << vargs, world, auxWorld, present, auxPresent, exclude_idents,
                    remove_images, todo, auxTodo, ct, running_idents,
                    deleted_idents, dir_ct, image_ct, tagIdx, discovered, rm_ct,
                    reads, foundRunning >>

\* The status line.
Report ==
    /\ \/ pc = "report"
       \/ pc = "prune_gate" /\ ~RunsPrune(vargs)
    /\ out' = Append(out, IF Changed(dir_ct, image_ct, pruned)
                          THEN "(changed: True)" ELSE "(changed: False)")
    /\ pc' = "done"
    /\ UNCHANGED << vargs, world, auxWorld, present, auxPresent, exclude_idents,
                    remove_images, todo, auxTodo, ct, running_idents,
                    deleted_idents, dir_ct, image_ct, pruned, tagIdx, discovered,
                    rm_ct, cmds, reads, foundRunning >>

\* --------------------------------------------------- the whole of run_cleanup
\* Most private data directories, and most image tags, in a whole run.
RunMaxDirs == 2
RunMaxTags == 1

\* Values of --file-pattern: absent, empty, a pattern.
PatternOpts == { None, Some(<<>>), Some(<<"r", "*">>) }

RunDirStates == [pid : {"missing", "malformed", "live", "dead"},
                 artifacts : {Some(<<IdentA>>)}]

RunWorlds ==
    UNION { [D -> RunDirStates] : D \in {S \in SUBSET Paths : Cardinality(S) <= RunMaxDirs} }

RunRemoveOpts ==
    {None} \cup { Some(JoinComma(ts)) : ts \in UNION { [1..n -> {<<"t">>}] : n \in 0..RunMaxTags } }

Init ==
    /\ vargs \in [file_pattern : PatternOpts, exclude_idents : {None, Some(<<"b">>)},
                  remove_images : RunRemoveOpts, image_prune : BOOLEAN]
    /\ world \in RunWorlds
    /\ present = DOMAIN world
    /\ auxWorld \in SUBSET { <<"a", "_", "x">> }
    /\ auxPresent = auxWorld
    /\ pc = "start"
    /\ exclude_idents = <<>> /\ remove_images = <<>>
    /\ todo = {} /\ auxTodo = {}
    /\ ct = 0 /\ running_idents = <<>> /\ deleted_idents = <<>>
    /\ dir_ct = 0 /\ image_ct = 0 /\ pruned = FALSE
    /\ tagIdx = 1 /\ discovered = <<>> /\ rm_ct = 0
    /\ out = <<>> /\ cmds = <<>> /\ reads = {} /\ foundRunning = {}

Next ==
    \/ Start
    \/ \E d \in Paths : DirStep(d)
    \/ DirsSummary
    \/ \E x \in AuxNames : AuxStep(x)
    \/ DirsReturn
    \/ ImagesGate
    \/ ListImages
    \/ Rmi
    \/ ImagesReturn
    \/ PruneImages
    \/ Report

Spec == Init /\ [][Next]_vars

\* ================================================= properties of cleanup_dirs
\* Directories the loop has dealt with, removed, and their identifiers.
Matched == DOMAIN world
Processed == Matched \ todo
RemovedDirs == Matched \ present
IdentsOf(d) == IF world[d].artifacts = None THEN {} ELSE
                  { world[d].artifacts[1][i] : i \in 1..Len(world[d].artifacts[1]) }
Elems(xs) == { xs[i] : i \in 1..Len(xs) }

\* The string e occurs somewhere inside the path string d.
OccursIn(e, d) ==
    \E i \in 1..(Len(d) + 1) : \E j \in (i - 1)..Len(d) : SubSeq(d, i, j) = e

\* The path string of d holds an excluded identifier somewhere inside it.
HoldsExcluded(d) == \E e \in Elems(exclude_idents) : OccursIn(e, d)

\* The first loop has run to its end.
FirstPassOver == pc \in {"aux", "images_gate"}

\* C1: a directory whose pid file names a live process is never removed, and
\* once the loop has dealt with it its identifiers are in the running list.
C1_LiveDirKept ==
    \A d \in Matched :
        world[d].pid = "live" =>
            /\ d \in present
            /\ (d \in Processed /\ ~HoldsExcluded(d)) =>
                   IdentsOf(d) \subseteq Elems(running_idents)

\* C2: once the loop is over, every matched, not skipped directory whose pid
\* file names a process that does not exist is removed, counted, and its
\* identifiers are in the deleted list.
C2_DeadDirRemoved ==
    FirstPassOver =>
        \A d \in Matched :
            (world[d].pid = "dead" /\ ~HoldsExcluded(d)) =>
                /\ d \notin present
                /\ ct >= 1
                /\ IdentsOf(d) \subseteq Elems(deleted_idents)

\* C3 as stated: no directory with an excluded identifier among its artifacts
\* entries is ever removed.
C3_ExcludedIdentDirKept ==
    \A d \in Matched :
        (IdentsOf(d) \cap Elems(exclude_idents) # {}) => d \in present

\* C3 amended: no directory is removed that has among its artifacts entries an
\* excluded identifier which also occurs in the directory's path string.
C3_ExcludedIdentInPathKept ==
    \A d \in Matched :
        (\E e \in IdentsOf(d) \cap Elems(exclude_idents) : OccursIn(e, d))
        => d \in present

C3_Witness ==
    /\ FirstPassOver
    /\ RemovedDirs # {}
    /\ \E d \in Matched :
           /\ world[d].pid \in {"missing", "unreadable", "live"}
           /\ \E e \in IdentsOf(d) \cap Elems(exclude_idents) : OccursIn(e, d)
           /\ d \in present

\* How often x occurs in the list xs.
Occurrences(x, xs) == Cardinality({ i \in 1..Len(xs) : xs[i] = x })

\* How many of the directories in D have x among their artifacts entries.
Holders(x, D) == Cardinality({ d \in D : x \in IdentsOf(d) })

\* C4: a directory whose path holds an excluded identifier is skipped whole:
\* it stays, neither its pid file nor its artifacts are read, and the running
\* and deleted lists hold the identifiers of the other directories only.
C4_ExcludedPathSkipped ==
    /\ \A d \in Matched :
           HoldsExcluded(d) =>
               /\ d \in present
               /\ <<d, "pid">> \notin reads
               /\ <<d, "artifacts">> \notin reads
               /\ d \notin foundRunning
    /\ \A x \in {IdentA, IdentAB} :
           /\ Occurrences(x, running_idents)
                  = Holders(x, { d \in foundRunning : ~HoldsExcluded(d) })
           /\ Occurrences(x, deleted_idents)
                  = Holders(x, { d \in RemovedDirs : ~HoldsExcluded(d) })

C4_Witness ==
    /\ FirstPassOver
    /\ \E d \in Matched :
           /\ HoldsExcluded(d)
           /\ world[d].pid \in {"missing", "dead"}
           /\ world[d].artifacts # None
    /\ \E d \in RemovedDirs : IdentsOf(d) # {}

\* The identifier an auth directory name carries: what stands before its last
\* underscore.
Embedded(x) ==
    CHOOSE s \in { SubSeq(x, 1, n) : n \in 0..Len(x) } :
        /\ Len(s) < Len(x)
        /\ x[Len(s) + 1] = "_"
        /\ \A j \in (Len(s) + 2)..Len(x) : x[j] # "_"

\* What C5 asks of the identifier X of an auth directory.
AuxDue(X) ==
    /\ \E d \in RemovedDirs : X \in IdentsOf(d)
    /\ X \notin Elems(exclude_idents)
    /\ ~\E d \in foundRunning : X \in IdentsOf(d)

\* C5: the second loop starts after the first has ended; an auth directory is
\* gone only if its identifier is one of a removed directory, not excluded and
\* not one of a directory found running; and after the second loop every such
\* auth directory is gone.
C5_AuxRemovedIff ==
    /\ pc = "aux" => todo = {}
    /\ auxPresent # auxWorld => pc \in {"aux", "images_gate"}
    /\ \A x \in auxWorld \ auxPresent : AuxDue(Embedded(x))
    /\ pc = "images_gate" =>
           \A x \in auxWorld : AuxDue(Embedded(x)) => x \notin auxPresent

C5_Witness ==
    /\ pc = "images_gate"
    /\ Cardinality(Matched) >= 2
    /\ \E x \in auxWorld \ auxPresent : TRUE
    /\ \E x \in auxPresent :
           /\ \E d \in foundRunning : Embedded(x) \in IdentsOf(d)
           /\ \E d \in RemovedDirs : Embedded(x) \in IdentsOf(d)

\* C10: a not skipped directory whose pid file is absent or unreadable is
\* removed and counted when the loop comes to it, the loop stops early only on
\* a pid file that is not a number, and directories without an artifacts
\* directory add no identifier to either list.
C10_NoPidFileRemoved ==
    /\ \A d \in Processed :
           (world[d].pid \in {"missing", "unreadable"} /\ ~HoldsExcluded(d)) =>
               d \notin present
    /\ ct = Cardinality(RemovedDirs)
    /\ pc = "aborted" =>
           \E d \in Processed : world[d].pid = "malformed" /\ ~HoldsExcluded(d)
    /\ (\A d \in RemovedDirs : world[d].artifacts = None) => deleted_idents = <<>>
    /\ (\A d \in foundRunning : world[d].artifacts = None) => running_idents = <<>>

C10_Witness ==
    /\ pc = "images_gate"
    /\ \E d \in RemovedDirs : world[d].pid = "missing" /\ world[d].artifacts = None
    /\ \E d \in RemovedDirs : world[d].pid = "unreadable"
    /\ ct = 2

\* ================================================ properties of cleanup_images
\* The commands run so far, by kind.
CallsOf(name) == { i \in 1..Len(cmds) : cmds[i].cmd = name }

\* Every place an Untagged: marker stands in the output of an rmi command.
UntaggedMarkers ==
    UNION { UNION { { <<i, j, k>> : k \in { n \in 1..Len(cmds[i].res.stdout[j]) :
                                              cmds[i].res.stdout[j][n] = "Untagged:" } } :
                    j \in 1..Len(cmds[i].res.stdout) } :
            i \in CallsOf("rmi") }

\* Every reference line in the output of an images command.
ReferenceLines ==
    { m \in UNION { {i} \X (1..Len(cmds[i].res.stdout)) : i \in CallsOf("images") } :
        cmds[m[1]].res.stdout[m[2]] # <<>> }

\* C9: when cleanup_images returns, its result is the number of Untagged:
\* markers in the outputs of all rmi commands, there is one images command for
\* each requested tag and one rmi command for each reference line listed, and a
\* tag that lists no reference is followed by no rmi command.
C9_ImagesCountsUntagged ==
    pc = "prune_gate" =>
        /\ image_ct = Cardinality(UntaggedMarkers)
        /\ Cardinality(CallsOf("images")) = Len(remove_images)
        /\ Cardinality(CallsOf("rmi")) = Cardinality(ReferenceLines)
        /\ \A i \in CallsOf("images") :
               (\A j \in 1..Len(cmds[i].res.stdout) : cmds[i].res.stdout[j] = <<>>)
               => (i = Len(cmds) \/ cmds[i + 1].cmd = "images")
        /\ \A i \in CallsOf("rmi") : cmds[i].arg \in {<<"r1">>, <<"r2">>}

C9_Witness ==
    /\ pc = "prune_gate"
    /\ image_ct = 2
    /\ Cardinality(CallsOf("rmi")) = 2
    /\ \E i \in CallsOf("images") : cmds[i].res.stdout = << <<>> >>
    /\ \E i \in CallsOf("rmi") : cmds[i].res.stdout = << <<"Deleted:", "s1">> >>

\* ================================================== properties of run_cleanup
StatusLines == { i \in 1..Len(out) : out[i] \in {"(changed: True)", "(changed: False)"} }

\* A prune command answered with something other than nothing or the
\* nothing-reclaimed line.
PruneReclaimed ==
    \E i \in CallsOf("prune") :
        /\ cmds[i].res.rc = 0
        /\ \E j \in 1..Len(cmds[i].res.stdout) :
               cmds[i].res.stdout[j] \notin {<<>>, <<"Total reclaimed space: 0B">>}

\* C6: a finished run has printed one status line, as its last line, and it
\* says True exactly when a directory was removed, an Untagged: marker was
\* counted or prune reclaimed space.
C6_OneStatusLine ==
    pc = "done" =>
        /\ Cardinality(StatusLines) = 1
        /\ Len(out) \in StatusLines
        /\ out[Len(out)] = "(changed: True)"
               <=> (RemovedDirs # {} \/ UntaggedMarkers # {} \/ PruneReclaimed)

C6_Witness ==
    /\ pc = "done"
    /\ RemovedDirs = {}
    /\ UntaggedMarkers = {}
    /\ PruneReclaimed
    /\ out[Len(out)] = "(changed: True)"

\* The three options, as the command line gives them.
PatternGiven == vargs.file_pattern \notin {None, Some(<<>>)}
ImagesGiven == vargs.remove_images \notin {None, Some(<<>>)}
FilesTouched == reads # {} \/ present # Matched \/ auxPresent # auxWorld

C7_Gates ==
    /\ FilesTouched => PatternGiven
    /\ CallsOf("images") \cup CallsOf("rmi") # {} => ImagesGiven
    /\ CallsOf("prune") # {} => vargs.image_prune
    /\ \A i \in CallsOf("prune") : i = Len(cmds)
    /\ (pc = "done" /\ ~PatternGiven /\ ~ImagesGiven /\ ~vargs.image_prune) =>
           /\ ~FilesTouched
           /\ cmds = <<>>
           /\ out = <<"(changed: False)">>

C7_Order ==
    /\ cmds # <<>> => (reads' = reads /\ present' = present /\ auxPresent' = auxPresent)
    /\ CallsOf("prune") # {} => cmds' = cmds

\* C7: directories are touched only under a file pattern, images and rmi
\* commands run only under a non-empty image list, prune only under the flag;
\* no file is touched once a command has run and no command follows prune;
\* with none of the three nothing happens and the status line says False.
C7_GatedInOrder == []C7_Gates /\ [][C7_Order]_vars

C7_Witness ==
    /\ pc = "done"
    /\ RemovedDirs # {}
    /\ CallsOf("rmi") # {}
    /\ CallsOf("prune") # {}

\* A fatal error has happened: a command returned non-zero, or a pid file that
\* is not a number was read.
FatalError ==
    \/ \E i \in 1..Len(cmds) : cmds[i].res.rc # 0
    \/ \E d \in Matched : <<d, "pid">> \in reads /\ world[d].pid = "malformed"

C8_Aborted ==
    /\ FatalError <=> pc = "aborted"
    /\ pc = "aborted" => StatusLines = {}
    /\ \A i \in 1..Len(cmds) : cmds[i].res.rc # 0 => i = Len(cmds)

\* C8: a fatal error leaves the run aborted, with no status line, and nothing
\* is done after it: no command, no read, no removal, no print; a removed
\* directory never comes back.
C8_FirstErrorAborts ==
    /\ []C8_Aborted
    /\ [][~FatalError]_vars
    /\ [][present' \subseteq present]_<<present>>

C8_Witness ==
    /\ pc = "aborted"
    /\ RemovedDirs # {}
    /\ \E d \in Processed : world[d].pid = "malformed"

====
